---- MODULE Spec2Model ----
(***************************************************************************)
(* Model of the fork/exec interrupt simulator of src/interrupts.cpp.       *)
(*                                                                         *)
(* simulate_trace is recursive (FORK runs the child's branch, EXEC runs    *)
(* the new program's trace, both as nested calls).  The model keeps the    *)
(* call stack explicitly: one frame per active simulate_trace call, with   *)
(* its by-value parameters and its locals.  A handler that makes a         *)
(* recursive call is cut at the call: the part before it is one action     *)
(* (Fork, Exec), the part after it another (ForkReturn, ExecReturn).       *)
(*                                                                         *)
(* Trace indices are 1-based here (trace_file[0] is trace[1]).             *)
(***************************************************************************)
EXTENDS Integers, Sequences, FiniteSets, TLC

(***************************************************************************)
(* Bounds of the model.                                                    *)
(***************************************************************************)
\* input traces of every length up to MaxLen are explored exhaustively
MaxLen == 3
\* FORK is not taken once next_pid has reached MaxPid (caps runaway runs)
MaxPid == 3
\* the two rand() delays of EXEC are explored over 1..MaxRand
MaxRand == 2

(***************************************************************************)
(* Configuration handed to simulate_trace by main (parse_args).            *)
(***************************************************************************)
\* sentinel of PCB.partition_number and PCB.PPID
NoPartition == -1

\* a trace line, already split in its fields
Line(a, d, p) == [activity |-> a, duration_intr |-> d, program_name |-> p]

\* parse_trace: activity, numeric operand, program name of one line
parse_trace(line) == line

\* ISR delay table; SYSCALL/END_IO operands index it (0-based in the code)
delays == <<20, 5>>

\* the vector table has entries for devices 0..3 (FORK uses 2, EXEC uses 3)
vectors == <<"0x10", "0x20", "0x30", "0x40">>

\* registry of external programs: name -> size
external_files == [prog1 |-> 2, prog2 |-> 1, big |-> 9, nofile |-> 2]

\* sizes get_size may hand back for a name that is not in the registry
AbsentSizes == {0, 9}

\* get_size: the sizes the lookup can return for a program name
get_size(name) ==
    IF name \in DOMAIN external_files THEN {external_files[name]}
    ELSE AbsentSizes

\* the program trace files that exist next to the simulator: name -> lines
ProgramFiles ==
    [prog1 |-> <<Line("CPU", 2, ""), Line("SYSCALL", 1, "")>>,
     prog2 |-> <<Line("FORK", 1, ""), Line("IF_CHILD", 0, ""),
                 Line("CPU", 2, ""), Line("IF_PARENT", 0, ""),
                 Line("ENDIF", 0, "")>>,
     big   |-> <<Line("CPU", 2, "")>>,
     ghost |-> <<Line("CPU", 2, "")>>]

\* capacities of the memory partitions, by partition number
PartitionSize == <<4, 2, 1>>

Partitions == 1..Len(PartitionSize)

(***************************************************************************)
(* PCB and memory partitions.                                              *)
(***************************************************************************)
PCB(pid, ppid, name, size, part) ==
    [PID |-> pid, PPID |-> ppid, program_name |-> name, size |-> size,
     partition_number |-> part]

\* free partitions that can hold size
Fits(mem, size) == {p \in Partitions : ~mem[p] /\ PartitionSize[p] >= size}

\* the partition allocate_memory picks: the smallest one that fits
BestFit(mem, size) ==
    CHOOSE p \in Fits(mem, size) :
        \A q \in Fits(mem, size) : PartitionSize[p] <= PartitionSize[q]

\* allocate_memory(&pcb): ok, the updated PCB and the updated pool
allocate_memory(pcb, mem) ==
    IF Fits(mem, pcb.size) = {}
    THEN [ok |-> FALSE, pcb |-> pcb, mem |-> mem]
    ELSE [ok  |-> TRUE,
          pcb |-> [pcb EXCEPT !.partition_number = BestFit(mem, pcb.size)],
          mem |-> [mem EXCEPT ![BestFit(mem, pcb.size)] = TRUE]]

\* free_memory(&pcb): the updated PCB and the updated pool
free_memory(pcb, mem) ==
    IF pcb.partition_number = NoPartition
    THEN [pcb |-> pcb, mem |-> mem]
    ELSE [pcb |-> [pcb EXCEPT !.partition_number = NoPartition],
          mem |-> [mem EXCEPT ![pcb.partition_number] = FALSE]]

(***************************************************************************)
(* Log entries.                                                            *)
(***************************************************************************)
\* one line "<time>, <duration>, <label>" of the execution log
Entry(t, d, label) == [time |-> t, dur |-> d, label |-> label]

\* Snapshot stamped with the clock before the IRET
SnapshotBeforeIret(t, event, prog, d, pcb, wq) ==
    [time |-> t - 1, event |-> event, prog |-> prog, op |-> d,
     pcb |-> pcb, wait_queue |-> wq]

\* one snapshot of the status log: header line and print_PCB's dump
Snapshot(t, event, prog, d, pcb, wq) ==
    [time |-> t, event |-> event, prog |-> prog, op |-> d,
     pcb |-> pcb, wait_queue |-> wq]

\* cost of "context saved" passed to intr_boilerplate by every handler
ContextSaveTime == 10

\* intr_boilerplate(current_time, intr_num, context_save_time, vectors)
\* "find vector <n> in memory position <vectors[n]>"
FindVector(t, intr_num) ==
    [time |-> t, dur |-> 1, label |-> "find vector", vector |-> intr_num,
     position |-> vectors[intr_num + 1]]

\* intr_boilerplate(current_time, intr_num, context_save_time, vectors)
intr_boilerplate(t, intr_num, save) ==
    [log  |-> <<Entry(t, 1, "switch to kernel mode"),
                Entry(t + 1, save, "context saved"),
                FindVector(t + 1 + save, intr_num)>>,
     time |-> t + 1 + save + 1]

(***************************************************************************)
(* FORK: carving the child's trace out of the caller's trace.              *)
(***************************************************************************)
\* state of the scan loop before any line is looked at; parent_index is the
\* code's 0 (the first line), which is index 1 here
ScanStart == [skip |-> TRUE, exec_flag |-> FALSE, parent_index |-> 1,
              child_idx |-> <<>>, stop |-> FALSE]

\* the line is appended to child_trace by the loop's last statement
PushWhenNotSkipping(st, j) ==
    IF ~st.skip THEN [st EXCEPT !.child_idx = Append(@, j)] ELSE st

\* the IF_PARENT branch: skipping starts, the index is remembered, and the
\* scan stops when an EXEC was copied before
AtIfParent(st, j) ==
    [st EXCEPT !.skip = TRUE, !.parent_index = j, !.stop = st.exec_flag]

\* AtEndif that leaves the scan skipping
AtEndifInert(st, j) == st

\* the ENDIF branch, taken while skipping: copying starts again
AtEndif(st, j) == [st EXCEPT !.skip = FALSE]

\* the EXEC branch, taken while copying: the line is copied, skipping starts
AtExec(st, j) ==
    [st EXCEPT !.skip = TRUE, !.child_idx = Append(@, j), !.exec_flag = TRUE]

\* one iteration of the scan loop, on line j of the caller's trace
ScanStep(st, a, j) ==
    IF st.skip /\ a = "IF_CHILD" THEN [st EXCEPT !.skip = FALSE]
    ELSE IF a = "IF_PARENT" THEN AtIfParent(st, j)
    ELSE IF st.skip /\ a = "ENDIF" THEN AtEndif(st, j)
    ELSE IF ~st.skip /\ a = "EXEC" THEN AtExec(st, j)
    ELSE PushWhenNotSkipping(st, j)

RECURSIVE ScanFrom(_, _, _)
\* the scan loop from line j on
ScanFrom(trace, j, st) ==
    IF j > Len(trace) \/ st.stop THEN st
    ELSE ScanFrom(trace, j + 1,
                  ScanStep(st, parse_trace(trace[j]).activity, j))

\* the whole scan for a FORK at line i: the indices copied to child_trace
\* and the final parent_index
ChildScan(trace, i) == ScanFrom(trace, i + 1, ScanStart)

\* child_trace: the copied lines, in order
ChildTrace(trace, idx) == [k \in 1..Len(idx) |-> trace[idx[k]]]

\* ChildPCB with the caller's parent recorded as the child's parent
ChildPCBWrongParent(pid, current) ==
    PCB(pid, current.PPID, current.program_name, current.size,
        current.partition_number)

\* the child PCB made by FORK: new pid, the caller as parent, everything
\* else inherited, the partition number included
ChildPCB(pid, current) ==
    PCB(pid, current.PID, current.program_name, current.size,
        current.partition_number)

\* NextPid without the increment
NextPidStuck(pid) == pid

\* next_pid++ : the counter after handing out pid
NextPid(pid) == pid + 1

\* ResumeTime that keeps the caller's own clock
ResumeTimeStale(own_time, new_time) == own_time

\* the caller's clock after a recursive call has returned new_time
ResumeTime(own_time, new_time) == new_time

\* the loop index after the FORK handler: i = parent_index, then i++
ResumeIndex(parent_index) == parent_index + 1

(***************************************************************************)
(* State.                                                                  *)
(***************************************************************************)
VARIABLES
    stack,      \* the active simulate_trace calls, outermost first
    memory,     \* the partition pool: partition number -> occupied
    next_pid,   \* the global pid counter
    result,     \* what the outermost call returned, once it has
    issued      \* history: the pids given to processes, in order

vars == <<stack, memory, next_pid, result, issued>>

NoPCB == PCB(-1, -1, "", 0, NoPartition)

NoResult == [returned |-> FALSE, execution |-> <<>>, system_status |-> <<>>,
             time |-> 0]

\* history of the EXEC a call has handled: its line, whether the program is
\* in the registry, whether allocate_memory succeeded, the PCB and the
\* lengths of the two logs when the handler started, the clock and the
\* execution log length when allocate_memory returned
NoExec == [done |-> FALSE, at |-> 0, known |-> TRUE, ok |-> TRUE,
           before |-> NoPCB, mark |-> 0, status_mark |-> 0,
           alloc_time |-> 0, alloc_mark |-> 0]

\* a fresh call of simulate_trace: parameters by value, locals initialised.
\* src and interp are history: where the lines of trace come from in the
\* caller's trace, and the indices this call has interpreted so far.
Frame(trace, time, current, wait_queue, kind, src) ==
    [trace |-> trace, time |-> time, current |-> current,
     wait_queue |-> wait_queue, execution |-> <<>>, system_status |-> <<>>,
     current_time |-> time, i |-> 1, broke |-> FALSE,
     pend |-> "none", child |-> NoPCB, parent_index |-> 1,
     kind |-> kind, src |-> src, interp |-> <<>>, exec |-> NoExec]

Top == stack[Len(stack)]

Running == stack # <<>> /\ Top.pend = "none"

\* the for loop has a line to interpret
AtLine == Running /\ ~Top.broke /\ Top.i <= Len(Top.trace)

\* the for loop is over: the call returns
AtReturn == Running /\ (Top.broke \/ Top.i > Len(Top.trace))

Cur == parse_trace(Top.trace[Top.i])

SetTop(f) == [stack EXCEPT ![Len(stack)] = f]

\* the frame after an iteration that made no recursive call
Stepped(f) == [f EXCEPT !.i = f.i + 1, !.interp = Append(f.interp, f.i)]

(***************************************************************************)
(* Inputs.                                                                 *)
(***************************************************************************)
\* the lines the exhaustive traces are made of
BaseLines ==
    {Line("CPU", 2, ""), Line("SYSCALL", 0, ""), Line("FORK", 1, ""),
     Line("IF_CHILD", 0, ""), Line("IF_PARENT", 0, ""), Line("ENDIF", 0, ""),
     Line("EXEC", 4, "prog1"), Line("EXEC", 4, "big"),
     Line("EXEC", 4, "ghost")}

ShortTraces == UNION {[1..n -> BaseLines] : n \in 0..MaxLen}

\* FORK,3 / IF_CHILD / CPU,2 / IF_PARENT / ENDIF
ScenarioB ==
    <<Line("FORK", 3, ""), Line("IF_CHILD", 0, ""), Line("CPU", 2, ""),
      Line("IF_PARENT", 0, ""), Line("ENDIF", 0, "")>>

\* CPU,5 / SYSCALL,0
ScenarioA == <<Line("CPU", 5, ""), Line("SYSCALL", 0, "")>>

\* longer traces: whole FORK blocks, alone and in sequence
Scenarios ==
    {ScenarioA, ScenarioB,
     <<Line("END_IO", 1, ""), Line("CPU", 5, ""), Line("SYSCALL", 1, ""),
       Line("END_IO", 0, "")>>,
     <<Line("SYSCALL", 2, ""), Line("CPU", 2, "")>>,
     <<Line("NOP", 0, ""), Line("CPU", 2, "")>>,
     <<Line("CPU", 2, ""), Line("END_IO", 2, ""), Line("CPU", 5, "")>>,
     <<Line("CPU", 5, ""), Line("SYSCALL", 0, ""), Line("END_IO", 1, "")>>,
     <<Line("FORK", 1, ""), Line("IF_CHILD", 0, ""), Line("CPU", 2, ""),
       Line("IF_PARENT", 0, ""), Line("SYSCALL", 0, ""), Line("ENDIF", 0, ""),
       Line("CPU", 5, "")>>,
     <<Line("FORK", 1, ""), Line("IF_CHILD", 0, ""), Line("EXEC", 4, "prog1"),
       Line("IF_PARENT", 0, ""), Line("END_IO", 0, ""), Line("ENDIF", 0, ""),
       Line("CPU", 5, "")>>,
     <<Line("FORK", 1, ""), Line("IF_CHILD", 0, ""), Line("CPU", 2, ""),
       Line("IF_PARENT", 0, ""), Line("CPU", 5, ""), Line("ENDIF", 0, ""),
       Line("FORK", 3, ""), Line("IF_CHILD", 0, ""), Line("SYSCALL", 0, ""),
       Line("IF_PARENT", 0, ""), Line("ENDIF", 0, "")>>,
     <<Line("FORK", 1, ""), Line("IF_CHILD", 0, ""), Line("EXEC", 4, "nofile"),
       Line("IF_PARENT", 0, ""), Line("CPU", 5, ""), Line("ENDIF", 0, "")>>,
     <<Line("FORK", 1, ""), Line("IF_CHILD", 0, ""), Line("EXEC", 4, "prog2"),
       Line("IF_PARENT", 0, ""), Line("EXEC", 4, "prog1"),
       Line("ENDIF", 0, "")>>}

InputTraces == ShortTraces \cup Scenarios

\* main: the initial process, with its partition allocated
InitPCB == PCB(0, -1, "init", 1, NoPartition)

EmptyMemory == [p \in Partitions |-> FALSE]

Init ==
    \E tr \in InputTraces :
        /\ stack = <<Frame(tr, 0, allocate_memory(InitPCB, EmptyMemory).pcb,
                           <<>>, "main", <<>>)>>
        /\ memory = allocate_memory(InitPCB, EmptyMemory).mem
        /\ next_pid = 1
        /\ result = NoResult
        /\ issued = <<0>>

(***************************************************************************)
(* The handlers of simulate_trace's loop.                                  *)
(***************************************************************************)
\* activity == "CPU"
Cpu ==
    /\ AtLine /\ Cur.activity = "CPU"
    /\ stack' = SetTop(Stepped(
           [Top EXCEPT
              !.execution = Append(@, Entry(Top.current_time,
                                            Cur.duration_intr, "CPU Burst")),
              !.current_time = @ + Cur.duration_intr]))
    /\ UNCHANGED <<memory, next_pid, result, issued>>

\* IsrFrame without the IRET's tick on the clock
IsrFrameNoIretTick(f, dev, label) ==
    LET b == intr_boilerplate(f.current_time, dev, ContextSaveTime)
        d == delays[dev + 1]
    IN  [f EXCEPT
           !.execution = @ \o b.log \o
                         <<Entry(b.time, d, label),
                           Entry(b.time + d, 1, "IRET")>>,
           !.current_time = b.time + d]

\* the SYSCALL and END_IO handlers differ in the ISR's label only
IsrFrame(f, dev, label) ==
    LET b == intr_boilerplate(f.current_time, dev, ContextSaveTime)
        d == delays[dev + 1]
    IN  [f EXCEPT
           !.execution = @ \o b.log \o
                         <<Entry(b.time, d, label),
                           Entry(b.time + d, 1, "IRET")>>,
           !.current_time = b.time + d + 1]

\* what delays[k] can give for k outside the table: the read is out of
\* bounds, and the word found there is not determined by the program
GarbageDelays == {-4, 7}

\* the SYSCALL / END_IO handler when delays[duration_intr] gives d
IsrFrameRead(f, dev, label, d) ==
    LET b == intr_boilerplate(f.current_time, dev, ContextSaveTime)
    IN  [f EXCEPT
           !.execution = @ \o b.log \o
                         <<Entry(b.time, d, label),
                           Entry(b.time + d, 1, "IRET")>>,
           !.current_time = b.time + d + 1]

IsrLabel(activity) == IF activity = "SYSCALL" THEN "SYSCALL ISR"
                      ELSE "ENDIO ISR"

\* the line is a SYSCALL or END_IO whose operand is outside the delay table
OutOfRange(line) ==
    /\ line.activity \in {"SYSCALL", "END_IO"}
    /\ line.duration_intr + 1 \notin DOMAIN delays

\* SYSCALL / END_IO with an operand outside the delay table: the read finds
\* some word, and the handler goes on with it
IsrOutOfRange ==
    /\ AtLine /\ OutOfRange(Cur)
    /\ \E d \in GarbageDelays :
          stack' = SetTop(Stepped(IsrFrameRead(Top, Cur.duration_intr,
                                               IsrLabel(Cur.activity), d)))
    /\ UNCHANGED <<memory, next_pid, result, issued>>

\* SYSCALL / END_IO with an operand outside the delay table: the read
\* faults and the process dies, no call returns
IsrFault ==
    /\ AtLine /\ OutOfRange(Cur)
    /\ stack' = <<>>
    /\ UNCHANGED <<memory, next_pid, result, issued>>

\* activity == "SYSCALL", with an operand inside the delay table (the
\* input traces hold no other operand)
Syscall ==
    /\ AtLine /\ Cur.activity = "SYSCALL"
    /\ Cur.duration_intr + 1 \in DOMAIN delays
    /\ stack' = SetTop(Stepped(IsrFrame(Top, Cur.duration_intr,
                                        "SYSCALL ISR")))
    /\ UNCHANGED <<memory, next_pid, result, issued>>

\* activity == "END_IO", with an operand inside the delay table
EndIo ==
    /\ AtLine /\ Cur.activity = "END_IO"
    /\ Cur.duration_intr + 1 \in DOMAIN delays
    /\ stack' = SetTop(Stepped(IsrFrame(Top, Cur.duration_intr, "ENDIO ISR")))
    /\ UNCHANGED <<memory, next_pid, result, issued>>

Handled == {"CPU", "SYSCALL", "END_IO", "FORK", "EXEC"}

\* no branch of the if-chain matches (IF_CHILD, IF_PARENT, ENDIF): the loop
\* goes on with the next line
Marker ==
    /\ AtLine /\ Cur.activity \notin Handled
    /\ stack' = SetTop(Stepped(Top))
    /\ UNCHANGED <<memory, next_pid, result, issued>>

\* PushWaiting that drops the PCB
PushWaitingLost(wait_queue, current) == wait_queue

\* wait_queue.push_back(current)
PushWaiting(wait_queue, current) == Append(wait_queue, current)

\* the FORK handler up to the recursive call: the caller's frame
ForkFrame(f, d, child, scan) ==
    LET b  == intr_boilerplate(f.current_time, 2, ContextSaveTime)
        t  == b.time + d + 1
        wq == PushWaiting(f.wait_queue, f.current)
    IN  [f EXCEPT
           !.execution = @ \o b.log \o
                         <<Entry(b.time, d, "cloning the PCB"),
                           Entry(b.time + d, 0, "scheduler called"),
                           Entry(b.time + d, 1, "IRET")>>,
           !.current_time = t,
           !.wait_queue = wq,
           !.system_status = Append(@, Snapshot(t, "FORK", "", d, child, wq)),
           !.child = child,
           !.parent_index = scan.parent_index,
           !.pend = "fork",
           !.interp = Append(@, f.i)]

\* activity == "FORK": the handler, up to and including the call that runs
\* the child's branch
Fork ==
    /\ AtLine /\ Cur.activity = "FORK"
    /\ next_pid < MaxPid
    /\ LET child  == ChildPCB(next_pid, Top.current)
           scan   == ChildScan(Top.trace, Top.i)
           caller == ForkFrame(Top, Cur.duration_intr, child, scan)
       IN  /\ stack' = Append(SetTop(caller),
                 Frame(ChildTrace(Top.trace, scan.child_idx),
                       caller.current_time, child, <<>>, "child",
                       scan.child_idx))
           /\ issued' = Append(issued, child.PID)
    /\ next_pid' = NextPid(next_pid)
    /\ UNCHANGED <<memory, result>>

Caller == stack[Len(stack) - 1]

\* Spliced with the callee's logs put before the caller's own
SplicedChildFirst(caller, callee) ==
    [caller EXCEPT
       !.execution = callee.execution \o @,
       !.system_status = callee.system_status \o @,
       !.current_time = ResumeTime(@, callee.current_time),
       !.pend = "none"]

\* Spliced that ends the caller's loop as well
SplicedAborts(caller, callee) ==
    [caller EXCEPT
       !.execution = @ \o callee.execution,
       !.system_status = @ \o callee.system_status,
       !.current_time = ResumeTime(@, callee.current_time),
       !.pend = "none",
       !.broke = TRUE]

\* Spliced that also takes the callee's PCB, as a by-reference parameter
SplicedTakesPCB(caller, callee) ==
    [caller EXCEPT
       !.execution = @ \o callee.execution,
       !.system_status = @ \o callee.system_status,
       !.current_time = ResumeTime(@, callee.current_time),
       !.current = callee.current,
       !.pend = "none"]

\* the caller's frame with the callee's logs and clock spliced in
Spliced(caller, callee) ==
    [caller EXCEPT
       !.execution = @ \o callee.execution,
       !.system_status = @ \o callee.system_status,
       !.current_time = ResumeTime(@, callee.current_time),
       !.pend = "none"]

\* the child's call returns: the rest of the FORK handler, in the caller
ForkReturn ==
    /\ AtReturn /\ Top.kind = "child"
    /\ LET freed == free_memory(Caller.child, memory)
       IN  /\ stack' = [SubSeq(stack, 1, Len(stack) - 1)
                           EXCEPT ![Len(stack) - 1] =
                               [Spliced(Caller, Top) EXCEPT
                                  !.child = freed.pcb,
                                  !.i = ResumeIndex(Caller.parent_index)]]
           /\ memory' = freed.mem
    /\ UNCHANGED <<next_pid, result, issued>>

\* the values rand() % 10 + 1 is explored over
RandDelays == 1..MaxRand

\* ExecImage that builds the PCB of a new top-level process
ExecImageFresh(pcb, name, size) ==
    PCB(0, -1, name, size, pcb.partition_number)

\* current.program_name = program_name; current.size = program_size
ExecImage(pcb, name, size) ==
    [pcb EXCEPT !.program_name = name, !.size = size]

\* Break that goes on with the next line instead
BreakMissing(f) == [f EXCEPT !.i = f.i + 1]

\* break: the loop of this call is over
Break(f) == [f EXCEPT !.broke = TRUE]

\* the EXEC handler up to the opening of the program's trace file, for the
\* size get_size returned and the two random delays: the caller's frame and
\* the pool.  The result of allocate_memory is reported and not acted on.
ExecFrame(f, line, size, mark_time, update_time, mem) ==
    LET b     == intr_boilerplate(f.current_time, 3, ContextSaveTime)
        d     == line.duration_intr
        load  == size * 15
        freed == free_memory(f.current, mem)
        al    == allocate_memory(
                     ExecImage(freed.pcb, line.program_name, size),
                     freed.mem)
        t0    == b.time + d + load
        t     == t0 + mark_time + update_time + 1
    IN  [frame |->
           [f EXCEPT
              !.execution = @ \o b.log \o
                  <<Entry(b.time, d, "Program is Mb large"),
                    Entry(b.time + d, load, "loading program into memory"),
                    Entry(t0, mark_time, "marking partition as occupied"),
                    Entry(t0 + mark_time, update_time, "updating PCB"),
                    Entry(t0 + mark_time + update_time, 0,
                          "scheduler called"),
                    Entry(t0 + mark_time + update_time, 1, "IRET")>>,
              !.current_time = t,
              !.current = al.pcb,
              !.system_status = Append(@,
                  Snapshot(t, "EXEC", line.program_name, d, al.pcb,
                           f.wait_queue)),
              !.interp = Append(@, f.i),
              !.exec = [done |-> TRUE, at |-> f.i,
                        known |-> line.program_name \in DOMAIN external_files,
                        ok |-> al.ok, before |-> f.current,
                        mark |-> Len(f.execution),
                        status_mark |-> Len(f.system_status),
                        alloc_time |-> t0,
                        alloc_mark |-> Len(f.execution) + Len(b.log) + 2]],
         mem |-> al.mem]

\* activity == "EXEC" and <program_name>.txt cannot be opened: the handler
\* runs up to the failed open and leaves the loop
ExecNoFile ==
    /\ AtLine /\ Cur.activity = "EXEC"
    /\ Cur.program_name \notin DOMAIN ProgramFiles
    /\ \E size \in get_size(Cur.program_name) :
       \E mark_time \in RandDelays, update_time \in RandDelays :
          LET r == ExecFrame(Top, Cur, size, mark_time, update_time, memory)
          IN  /\ stack' = SetTop(Break(r.frame))
              /\ memory' = r.mem
    /\ UNCHANGED <<next_pid, result, issued>>

\* activity == "EXEC" and the trace file opens: the handler, up to and
\* including the call that runs the new program's trace
Exec ==
    /\ AtLine /\ Cur.activity = "EXEC"
    /\ Cur.program_name \in DOMAIN ProgramFiles
    /\ \E size \in get_size(Cur.program_name) :
       \E mark_time \in RandDelays, update_time \in RandDelays :
          LET r == ExecFrame(Top, Cur, size, mark_time, update_time, memory)
          IN  /\ stack' = Append(SetTop([r.frame EXCEPT !.pend = "exec"]),
                     Frame(ProgramFiles[Cur.program_name],
                           r.frame.current_time, r.frame.current,
                           r.frame.wait_queue, "exec", <<>>))
              /\ memory' = r.mem
    /\ UNCHANGED <<next_pid, result, issued>>

\* the new program's call returns: the rest of the EXEC handler
ExecReturn ==
    /\ AtReturn /\ Top.kind = "exec"
    /\ stack' = [SubSeq(stack, 1, Len(stack) - 1)
                    EXCEPT ![Len(stack) - 1] = Break(Spliced(Caller, Top))]
    /\ UNCHANGED <<memory, next_pid, result, issued>>

\* the outermost call returns to main
MainReturn ==
    /\ AtReturn /\ Top.kind = "main"
    /\ result' = [returned |-> TRUE, execution |-> Top.execution,
                  system_status |-> Top.system_status,
                  time |-> Top.current_time]
    /\ stack' = <<>>
    /\ UNCHANGED <<memory, next_pid, issued>>

Next ==
    \/ Cpu
    \/ Syscall
    \/ EndIo
    \/ IsrOutOfRange
    \/ IsrFault
    \/ Marker
    \/ Fork
    \/ ForkReturn
    \/ ExecNoFile
    \/ Exec
    \/ ExecReturn
    \/ MainReturn

Spec == Init /\ [][Next]_vars

(***************************************************************************)
(* Properties.                                                             *)
(***************************************************************************)
Frames == DOMAIN stack

\* the PCBs that exist in a state: every call's current process and the
\* child a FORK handler is waiting for
LivePCBs ==
    {stack[k].current : k \in Frames} \cup
    {stack[k].child : k \in {n \in Frames : stack[n].pend = "fork"}}

SamePartition(a, b) ==
    /\ a.PID # b.PID
    /\ a.partition_number # NoPartition
    /\ a.partition_number = b.partition_number

\* the parent pids recorded for pid by the live PCBs
ParentsOf(pid) == {c.PPID : c \in {x \in LivePCBs : x.PID = pid}}

RECURSIVE DescendsFrom(_, _, _)
\* pid reaches anc by following PPID links, in at most n steps
DescendsFrom(pid, anc, n) ==
    /\ n > 0
    /\ \E pp \in ParentsOf(pid) : pp = anc \/ DescendsFrom(pp, anc, n - 1)

\* C1 as stated: no two PCBs with different pids hold the same non-sentinel
\* partition number, in any state of a run.
C1_PartitionExclusive ==
    \A a \in LivePCBs, b \in LivePCBs : ~SamePartition(a, b)

\* C1 amended: two PCBs with different pids hold the same non-sentinel
\* partition number only when one of them is a FORK descendant of the other
\* (FORK copies the parent's partition number into the child).
C1_SharedOnlyWithForkAncestor ==
    \A a \in LivePCBs, b \in LivePCBs :
        SamePartition(a, b) =>
            \/ DescendsFrom(a.PID, b.PID, MaxPid)
            \/ DescendsFrom(b.PID, a.PID, MaxPid)

\* a grandchild's branch runs while it holds the partition number of the
\* initial process
C1_Witness ==
    /\ Len(stack) >= 3
    /\ SamePartition(stack[1].current, Top.current)
    /\ Top.current.PPID # stack[1].current.PID
    /\ Top.kind = "child"

\* C2: every live PCB's partition number is the sentinel or names a
\* partition that the pool marks occupied.
C2_PoolConsistent ==
    \A c \in LivePCBs :
        c.partition_number = NoPartition \/ memory[c.partition_number]

Chained(log) ==
    \A n \in 1..(Len(log) - 1) : log[n + 1].time = log[n].time + log[n].dur

ClockAtEnd(log, start, clock) ==
    IF log = <<>> THEN clock = start
    ELSE clock = log[Len(log)].time + log[Len(log)].dur

\* C3: in the log of every call, and in the log the outermost call returns,
\* each entry starts where the entry before it ended, and the clock equals
\* the last entry's time plus its duration.
C3_ClockChained ==
    /\ \A k \in Frames :
          /\ Chained(stack[k].execution)
          /\ ClockAtEnd(stack[k].execution, stack[k].time,
                        stack[k].current_time)
    /\ result.returned =>
          /\ Chained(result.execution)
          /\ ClockAtEnd(result.execution, 0, result.time)

HasLabel(log, label) == \E n \in DOMAIN log : log[n].label = label

\* the outermost call has returned a log that holds a child's branch and an
\* EXEC continuation, followed by entries of the parent
C3_Witness ==
    /\ result.returned
    /\ HasLabel(result.execution, "cloning the PCB")
    /\ HasLabel(result.execution, "updating PCB")
    /\ result.execution[Len(result.execution)].label = "CPU Burst"
    /\ result.time > 40

PidsIncreasing ==
    /\ issued[1] = 0
    /\ \A a \in DOMAIN issued, b \in DOMAIN issued :
          a < b => issued[a] < issued[b]
    /\ \A a \in DOMAIN issued : issued[a] < next_pid
    /\ \A c \in LivePCBs : \E a \in DOMAIN issued : issued[a] = c.PID
    /\ \A k \in Frames, n \in Frames :
          (k < n /\ stack[n].kind = "child") =>
              stack[n].current.PID > stack[k].current.PID

\* C4: every pid given to a process is greater than all pids given before,
\* starting with 0 for the initial process and 1 for the first child, and
\* the counter never goes down.
C4_PidUnique ==
    /\ []PidsIncreasing
    /\ [][next_pid' >= next_pid]_vars

\* two FORKs have run, one inside the other, and both have returned
C4_Witness ==
    /\ Len(issued) = 3
    /\ Len(stack) = 1 /\ Top.pend = "none"
    /\ Len(Top.system_status) = 2
    /\ Top.system_status[1].pcb.PID = 1
    /\ Top.system_status[2].pcb = PCB(2, 1, "init", 1, 3)

Min(a, b) == IF a < b THEN a ELSE b

\* C5: the trace index of every call only moves forward, and a FORK handler
\* that has finished leaves it after the FORK line (so every call reaches
\* the end of its trace).
C5_IndexProgresses ==
    [][\A d \in 1..Min(Len(stack), Len(stack')) :
          /\ stack'[d].i >= stack[d].i
          /\ (stack[d].pend = "fork" /\ stack'[d].pend = "none")
                => stack'[d].i > stack[d].i]_vars

Act(trace, j) == parse_trace(trace[j]).activity

\* indices after i that hold activity a, in trace
After(trace, i, a) == {j \in (i + 1)..Len(trace) : Act(trace, j) = a}

Least(S) == CHOOSE x \in S : \A y \in S : x <= y

\* the indices lo..hi as a sequence
Range(lo, hi) == [k \in 1..(hi - lo + 1) |-> lo + k - 1]

\* the branch C6 describes for a FORK at i: after the first IF_CHILD, before
\* the next IF_PARENT, cut right after the first EXEC in between
BranchAsStated(trace, i) ==
    LET c  == Least(After(trace, i, "IF_CHILD"))
        p  == Least(After(trace, c, "IF_PARENT"))
        ex == {e \in After(trace, c, "EXEC") : e < p}
    IN  Range(c + 1, IF ex = {} THEN p - 1 ELSE Least(ex))

\* the calls running a FORK's child branch, as frame numbers
ChildFrames == {k \in Frames : stack[k].kind = "child"}

\* C6 as stated: the child's trace is exactly the lines after the first
\* IF_CHILD following the FORK and before the next IF_PARENT, cut after the
\* first EXEC in that range.
C6_ChildBranchAsStated ==
    \A k \in ChildFrames :
        LET tr == stack[k - 1].trace
            i  == stack[k - 1].i
        IN  (/\ After(tr, i, "IF_CHILD") # {}
             /\ After(tr, Least(After(tr, i, "IF_CHILD")), "IF_PARENT") # {})
            => stack[k].src = BranchAsStated(tr, i)

\* line j follows an IF_CHILD or ENDIF after i, with no IF_PARENT and no
\* EXEC strictly between that marker and j
Open(trace, i, j) ==
    \E m \in (i + 1)..(j - 1) :
        /\ Act(trace, m) \in {"IF_CHILD", "ENDIF"}
        /\ \A x \in (m + 1)..(j - 1) :
              Act(trace, x) \notin {"IF_PARENT", "EXEC"}

\* line j comes after an IF_PARENT that follows a copied EXEC
Cut(trace, i, j) ==
    \E x \in (i + 1)..(j - 1), q \in (i + 1)..(j - 1) :
        /\ x < q
        /\ Act(trace, x) = "EXEC" /\ Open(trace, i, x)
        /\ Act(trace, q) = "IF_PARENT"

Copied(trace, i) ==
    {j \in (i + 1)..Len(trace) :
        /\ Act(trace, j) # "IF_PARENT"
        /\ Open(trace, i, j)
        /\ ~Cut(trace, i, j)}

\* C6 amended: the child's trace holds, in order, every line after the
\* FORK that is no IF_PARENT and follows an IF_CHILD or ENDIF with no
\* IF_PARENT and no EXEC in between, up to the first IF_PARENT after a
\* copied EXEC.  Lines after the ENDIF are therefore in it as well.  For
\* FORK,3 / IF_CHILD / CPU,2 / IF_PARENT / ENDIF the child logs exactly one
\* CPU Burst of duration 2.
C6_ChildBranch ==
    \A k \in ChildFrames :
        LET tr == stack[k - 1].trace
            i  == stack[k - 1].i
            s  == stack[k].src
        IN  /\ {s[n] : n \in DOMAIN s} = Copied(tr, i)
            /\ \A a \in DOMAIN s, b \in DOMAIN s : a < b => s[a] < s[b]
            /\ Len(stack[k].trace) = Len(s)
            /\ \A n \in DOMAIN s : stack[k].trace[n] = tr[s[n]]
            /\ (tr = ScenarioB /\ k = Len(stack) /\ AtReturn) =>
                   /\ Len(stack[k].execution) = 1
                   /\ stack[k].execution[1].label = "CPU Burst"
                   /\ stack[k].execution[1].dur = 2

\* a child runs a trace that holds a line from after the ENDIF of its block
C6_Witness ==
    /\ Len(stack) >= 2
    /\ Top.kind = "child"
    /\ Len(Top.src) >= 2
    /\ \E e \in After(Caller.trace, Caller.i, "ENDIF") :
          /\ After(Caller.trace, Caller.i, "IF_PARENT") # {}
          /\ Least(After(Caller.trace, Caller.i, "IF_PARENT")) < e
          /\ e < Top.src[Len(Top.src)]
    /\ Top.i > Len(Top.trace)

\* C7: when a FORK's child call returns, the caller goes on with the line
\* right after the first IF_PARENT that follows the FORK.
C7_ResumesAfterFirstIfParent ==
    [][(/\ Len(stack) >= 2
        /\ Len(stack') = Len(stack) - 1
        /\ Caller.pend = "fork"
        /\ After(Caller.trace, Caller.i, "IF_PARENT") # {})
       => stack'[Len(stack')].i =
              Least(After(Caller.trace, Caller.i, "IF_PARENT")) + 1]_vars

\* C8: a call that has handled an EXEC line interprets no further line of
\* its trace: the EXEC is the last line it ever interprets.
C8_ExecIsTerminal ==
    \A k \in Frames :
        LET f == stack[k]
        IN  /\ \A n \in DOMAIN f.interp :
                  Act(f.trace, f.interp[n]) = "EXEC" => n = Len(f.interp)
            /\ f.exec.done =>
                  /\ f.interp[Len(f.interp)] = f.exec.at
                  /\ f.i = f.exec.at
                  /\ f.pend = "none" => f.broke

\* the continuation of an EXEC whose allocation failed has returned, and
\* the call has lines left after the EXEC
C8_Witness ==
    /\ stack # <<>>
    /\ Top.exec.done /\ ~Top.exec.ok
    /\ Top.pend = "none" /\ Top.broke
    /\ Top.exec.at < Len(Top.trace)
    /\ HasLabel(Top.execution, "CPU Burst")

\* C9: after allocate_memory has failed at an EXEC, the call's execution
\* log, status log and clock stay as they were at that point, and no
\* continuation call is made.
C9_AllocationFailureStops ==
    \A k \in Frames :
        LET f == stack[k]
        IN  (f.exec.done /\ ~f.exec.ok) =>
                /\ Len(f.execution) = f.exec.alloc_mark
                /\ Len(f.system_status) = f.exec.status_mark
                /\ f.current_time = f.exec.alloc_time
                /\ f.pend # "exec"

\* C10: after an EXEC that names a program absent from the registry, the
\* call's log holds no "Program is ... Mb large" and no "loading program
\* into memory" entry for it, the PCB is as before, and no continuation
\* call is made.
C10_UnknownProgramStops ==
    \A k \in Frames :
        LET f == stack[k]
        IN  (f.exec.done /\ ~f.exec.known) =>
                /\ \A n \in (f.exec.mark + 1)..Len(f.execution) :
                      f.execution[n].label \notin
                          {"Program is Mb large",
                           "loading program into memory"}
                /\ f.current = f.exec.before
                /\ f.pend # "exec"

\* the step is the return of a FORK's child call to its caller
ChildReturns ==
    /\ Len(stack) >= 2
    /\ Len(stack') = Len(stack) - 1
    /\ Top.kind = "child"

\* C11: when a FORK's child call returns, the partition its process holds
\* at the end of the branch is marked free, and when the outermost call
\* returns no partition but the initial process's own is occupied.
C11_ChildPartitionReleased ==
    [][/\ ChildReturns =>
             \/ Top.current.partition_number = NoPartition
             \/ ~memory'[Top.current.partition_number]
       /\ (Len(stack) = 1 /\ result'.returned) =>
             \A p \in Partitions :
                 memory'[p] => p = Top.current.partition_number]_vars

Inline == {"CPU", "SYSCALL", "END_IO"}

\* the entries C12 gives for one line, started at clock t
LineEntries(line, t) ==
    IF line.activity = "CPU"
    THEN <<Entry(t, line.duration_intr, "CPU Burst")>>
    ELSE <<Entry(t, 1, "switch to kernel mode"),
           Entry(t + 1, 10, "context saved"),
           [time |-> t + 12 - 1, dur |-> 1, label |-> "find vector",
            vector |-> line.duration_intr,
            position |-> vectors[line.duration_intr + 1]],
           Entry(t + 12, delays[line.duration_intr + 1],
                 IF line.activity = "SYSCALL" THEN "SYSCALL ISR"
                 ELSE "ENDIO ISR"),
           Entry(t + 12 + delays[line.duration_intr + 1], 1, "IRET")>>

\* the ticks C12 gives for one line
LineCost(line) ==
    IF line.activity = "CPU" THEN line.duration_intr
    ELSE 1 + 10 + 1 + delays[line.duration_intr + 1] + 1

RECURSIVE CostOf(_, _)
\* the ticks of the first n lines of trace
CostOf(trace, n) ==
    IF n = 0 THEN 0 ELSE CostOf(trace, n - 1) + LineCost(trace[n])

RECURSIVE EntriesOf(_, _, _)
\* the entries of the first n lines of trace, started at clock c
EntriesOf(trace, n, c) ==
    IF n = 0 THEN <<>>
    ELSE EntriesOf(trace, n - 1, c) \o
         LineEntries(trace[n], c + CostOf(trace, n - 1))

InlineOnly(trace) ==
    \A n \in DOMAIN trace :
        /\ trace[n].activity \in Inline
        /\ trace[n].activity # "CPU" =>
              trace[n].duration_intr + 1 \in DOMAIN delays

\* C12: a call whose trace holds only CPU, SYSCALL and END_IO lines, with
\* operands inside the tables, has after n lines the clock c + the sum of
\* the lines' ticks, and a log made of each line's entries in order; the
\* run of CPU,5 / SYSCALL,0 returns clock 38.
C12_InlineTiming ==
    /\ \A k \in Frames :
          LET f == stack[k]
          IN  InlineOnly(f.trace) =>
                 /\ f.current_time = f.time + CostOf(f.trace, f.i - 1)
                 /\ f.execution = EntriesOf(f.trace, f.i - 1, f.time)
                 /\ (f.trace = ScenarioA /\ f.time = 0 /\ f.i = 3) =>
                        f.current_time = 38
    /\ (result.returned /\ Len(result.execution) = 6
           /\ result.execution[1] = Entry(0, 5, "CPU Burst")
           /\ result.execution[5].label = "SYSCALL ISR"
           /\ result.execution[5].dur = 20)
          => result.time = 38

\* the run of CPU,5 / SYSCALL,0 has returned
C12_Witness ==
    /\ result.returned
    /\ Len(result.execution) = 6
    /\ result.execution[1] = Entry(0, 5, "CPU Burst")
    /\ result.execution[4].vector = 0
    /\ result.execution[4].position = "0x10"
    /\ result.execution[5] = Entry(17, 20, "SYSCALL ISR")
    /\ result.execution[6] = Entry(37, 1, "IRET")

\* the call has left its loop at an EXEC whose trace file did not open
LoadFailed(f) ==
    /\ f.exec.done /\ f.broke /\ f.pend = "none"
    /\ f.trace[f.exec.at].program_name \notin DOMAIN ProgramFiles

\* C13: a child call that stopped at an EXEC whose trace file cannot be
\* opened returns what it has logged; its caller takes over log and clock,
\* goes on after the IF_PARENT that follows that EXEC line, and its loop is
\* not ended; no call's loop is ended early but by its own EXEC.
C13_FailureIsolated ==
    /\ [](\A k \in Frames : stack[k].broke => stack[k].exec.done)
    /\ [][(ChildReturns /\ LoadFailed(Top)) =>
            LET after == stack'[Len(stack')]
                e     == Top.src[Top.exec.at]
            IN  /\ Top.execution # <<>>
                /\ after.execution = Caller.execution \o Top.execution
                /\ after.system_status =
                       Caller.system_status \o Top.system_status
                /\ after.current_time = Top.current_time
                /\ ~after.broke /\ after.pend = "none"
                /\ After(Caller.trace, e, "IF_PARENT") # {} =>
                       after.i =
                         Least(After(Caller.trace, e, "IF_PARENT")) + 1]_vars

\* the parent has interpreted its CPU line after a child whose EXEC could
\* not load its trace
C13_Witness ==
    /\ Len(stack) = 1
    /\ Top.pend = "none" /\ ~Top.exec.done
    /\ Len(Top.system_status) = 2
    /\ Top.system_status[2].prog = "nofile"
    /\ Top.execution[Len(Top.execution)].label = "CPU Burst"
    /\ Top.execution[Len(Top.execution)].time =
           Top.execution[Len(Top.execution) - 1].time + 1
    /\ Top.i > Len(Top.trace)

\* C14: while a callee runs, no call below it changes; when a FORK's child
\* call returns, its whole log is appended right after the FORK's IRET
\* entry and its whole status log after the FORK's snapshot; the entries a
\* call appends start at its clock, which after the return is the clock
\* the child returned.
C14_NoInterleaving ==
    [][/\ Len(stack') >= Len(stack) =>
             /\ \A d \in 1..(Len(stack) - 1) : stack'[d] = stack[d]
             /\ (stack # <<>> /\
                 Len(stack'[Len(stack)].execution) > Len(Top.execution)) =>
                    /\ SubSeq(stack'[Len(stack)].execution, 1,
                              Len(Top.execution)) = Top.execution
                    /\ stack'[Len(stack)].execution
                           [Len(Top.execution) + 1].time = Top.current_time
       /\ ChildReturns =>
             /\ \A d \in 1..(Len(stack) - 2) : stack'[d] = stack[d]
             /\ Caller.execution[Len(Caller.execution)] =
                    Entry(Top.time - 1, 1, "IRET")
             /\ Caller.system_status[Len(Caller.system_status)].time =
                    Top.time
             /\ stack'[Len(stack')].execution =
                    Caller.execution \o Top.execution
             /\ stack'[Len(stack')].system_status =
                    Caller.system_status \o Top.system_status
             /\ stack'[Len(stack')].current_time = Top.current_time]_vars

\* the parent has logged its SYSCALL after the two CPU bursts of its child
C14_Witness ==
    /\ Len(stack) = 1
    /\ Len(Top.execution) >= 9
    /\ Top.execution[4].label = "cloning the PCB"
    /\ Top.execution[6].label = "IRET"
    /\ Top.execution[7] = Entry(Top.execution[6].time + 1, 2, "CPU Burst")
    /\ Top.execution[8].label = "CPU Burst"
    /\ Top.execution[9] =
           Entry(Top.execution[8].time + 5, 1, "switch to kernel mode")

\* C15: a SYSCALL or END_IO whose operand is outside the delay table ends
\* the call's loop: the handler appends no ISR entry and no IRET entry, and
\* the call interprets no later line.
C15_OutOfRangeIsFatal ==
    [][(AtLine /\ OutOfRange(Cur)) =>
          /\ Len(stack') = Len(stack)
          /\ stack'[Len(stack)].broke
          /\ \A n \in (Len(Top.execution) + 1)..
                          Len(stack'[Len(stack)].execution) :
                stack'[Len(stack)].execution[n].label \notin
                    {"SYSCALL ISR", "ENDIO ISR", "IRET"}]_vars

\* the eight activity tags
KnownActivities == Handled \cup {"IF_CHILD", "IF_PARENT", "ENDIF"}

\* C16: a line whose activity is none of the eight tags ends the call's
\* loop and adds a fatal error to its status log; the call does not go on
\* with the next line.
C16_UnknownActivityAborts ==
    [][(AtLine /\ Cur.activity \notin KnownActivities) =>
          /\ Len(stack') = Len(stack)
          /\ stack'[Len(stack)].broke
          /\ stack'[Len(stack)].i = Top.i
          /\ Len(stack'[Len(stack)].system_status) =
                 Len(Top.system_status) + 1]_vars

\* the step is the EXEC handler of the innermost call
ExecStep ==
    /\ stack # <<>> /\ ~Top.exec.done
    /\ Len(stack') >= Len(stack)
    /\ stack'[Len(stack)].exec.done

\* a call that has handled an EXEC has the pid and parent pid it had
\* before, in its PCB and in the EXEC's snapshot, and when allocation
\* succeeded the new name and a partition; its continuation runs with the
\* same pid and parent pid
IdentityKept ==
    \A k \in Frames :
        LET f == stack[k]
        IN  /\ f.exec.done =>
                /\ f.current.PID = f.exec.before.PID
                /\ f.current.PPID = f.exec.before.PPID
                /\ f.system_status[f.exec.status_mark + 1].pcb = f.current
                /\ f.current.program_name =
                       f.trace[f.exec.at].program_name
                /\ f.exec.ok => f.current.partition_number \in Partitions
            /\ (k > 1 /\ f.kind = "exec") =>
                /\ f.current.PID = stack[k - 1].exec.before.PID
                /\ f.current.PPID = stack[k - 1].exec.before.PPID
                /\ f.current = stack[k - 1].current

\* C17: EXEC leaves pid and parent pid of the current PCB as they were, in
\* the snapshot and throughout the continuation, and does not advance the
\* pid counter.
C17_ExecKeepsIdentity ==
    /\ []IdentityKept
    /\ [][ExecStep => next_pid' = next_pid]_vars

\* the continuation of a child's EXEC is running as pid 1, child of pid 0
C17_Witness ==
    /\ Len(stack) >= 3
    /\ Top.kind = "exec"
    /\ Top.current.PID = 1 /\ Top.current.PPID = 0
    /\ Top.current.program_name = "prog1"
    /\ Top.current.partition_number = 2
    /\ Top.i > 1

\* the step is the FORK handler of the innermost call, up to its recursive
\* call
ForkStep ==
    /\ AtLine /\ Cur.activity = "FORK"
    /\ Len(stack') = Len(stack) + 1

\* the calls that exist before and after the step
Persisting ==
    {k \in Frames : k <= Len(stack')}

\* C18: a call's wait queue changes only at a FORK it handles, where it
\* gains one copy of the current PCB at the end; a child call starts with an
\* empty queue and an EXEC continuation with its caller's queue.
C18_WaitQueueDiscipline ==
    [][/\ \A k \in Persisting :
             stack'[k].wait_queue =
                 IF k = Len(stack) /\ ForkStep
                 THEN Append(stack[k].wait_queue, stack[k].current)
                 ELSE stack[k].wait_queue
       /\ Len(stack') = Len(stack) + 1 =>
             LET new == stack'[Len(stack')]
             IN  /\ new.kind = "child" => new.wait_queue = <<>>
                 /\ new.kind = "exec" =>
                        /\ new.wait_queue = Top.wait_queue
                        /\ new.wait_queue = stack'[Len(stack)].wait_queue
                 /\ new.kind \in {"child", "exec"}]_vars

\* an EXEC continuation runs with the one entry left by its caller's FORK
\* and has handled a line with it
C18_Witness ==
    /\ Len(stack) >= 2
    /\ Top.kind = "exec"
    /\ Len(Top.wait_queue) = 1
    /\ Top.wait_queue = Caller.wait_queue
    /\ Top.wait_queue[1].PID = Top.current.PID
    /\ Top.i > 1

\* the positions in an execution log where a FORK or an EXEC ends: an IRET
\* that follows "scheduler called"
EventEnds(log) ==
    {j \in 2..Len(log) : /\ log[j].label = "IRET"
                         /\ log[j - 1].label = "scheduler called"}

\* the n-th of these positions, in log order
NthEnd(log, n) ==
    CHOOSE j \in EventEnds(log) :
        Cardinality({x \in EventEnds(log) : x <= j}) = n

\* the event whose handler wrote the entries that end at position j
EventAt(log, j) ==
    IF j > 2 /\ log[j - 2].label = "cloning the PCB" THEN "FORK" ELSE "EXEC"

\* the snapshots of a status log are, in order, one for each FORK or EXEC
\* that ends in the execution log, stamped with the clock after its IRET
SnapshotsFollowLog(log, status) ==
    /\ Len(status) = Cardinality(EventEnds(log))
    /\ \A n \in DOMAIN status :
          LET j == NthEnd(log, n)
          IN  /\ status[n].time = log[j].time + 1
              /\ status[n].event = EventAt(log, j)

\* the status log of the innermost call after the step is the one before it
\* with one snapshot of this event, stamped with the call's clock, at the end
OneSnapshot(event) ==
    LET before == Top.system_status
        after  == stack'[Len(stack)].system_status
        s      == after[Len(after)]
    IN  /\ Len(after) = Len(before) + 1
        /\ SubSeq(after, 1, Len(before)) = before
        /\ s.event = event
        /\ s.op = Cur.duration_intr
        /\ s.time = stack'[Len(stack)].current_time

\* C19: a FORK adds one snapshot to the status log, stamped c + 12 + n + 1;
\* an EXEC adds one, stamped with the clock after its IRET; no other line
\* adds any; the snapshots are in the order of the events in the execution
\* log.
C19_StatusLogEmission ==
    /\ [](/\ \A k \in Frames :
                SnapshotsFollowLog(stack[k].execution, stack[k].system_status)
          /\ SnapshotsFollowLog(result.execution, result.system_status))
    /\ [][/\ ForkStep =>
                /\ OneSnapshot("FORK")
                /\ stack'[Len(stack)].current_time =
                       Top.current_time + 12 + Cur.duration_intr + 1
          /\ ExecStep => OneSnapshot("EXEC")
          /\ (AtLine /\ Cur.activity \notin {"FORK", "EXEC"}
                 /\ Len(stack') = Len(stack)) =>
                stack'[Len(stack)].system_status = Top.system_status]_vars

\* the outermost call has returned the status log of a FORK at clock 0
\* whose child handled an EXEC, with the parent's lines after them
C19_Witness ==
    /\ result.returned
    /\ Len(result.system_status) = 2
    /\ result.system_status[1].event = "FORK"
    /\ result.system_status[1].time = 14
    /\ result.system_status[2].event = "EXEC"
    /\ result.system_status[2].time > 14 + 12 + 4 + 30
    /\ result.execution[Len(result.execution)].label = "CPU Burst"
    /\ HasLabel(result.execution, "ENDIO ISR")

\* a call waiting for its child has, as the last entry of its wait queue,
\* the copy of its PCB taken at the FORK, and its PCB is still that copy
ParentAsForked ==
    \A k \in Frames :
        stack[k].pend = "fork" =>
            /\ stack[k].wait_queue # <<>>
            /\ stack[k].wait_queue[Len(stack[k].wait_queue)] =
                   stack[k].current

\* C20: the FORK handler leaves the caller's PCB as it was and appends it to
\* the wait queue; while the child's call runs, whatever it does, neither
\* changes; when the child's call returns the parent goes on with that PCB
\* and that wait queue.
C20_ParentIsolated ==
    /\ []ParentAsForked
    /\ [][/\ ForkStep =>
                /\ stack'[Len(stack)].current = Top.current
                /\ stack'[Len(stack)].wait_queue =
                       Append(Top.wait_queue, Top.current)
          /\ \A k \in Persisting :
                k < Len(stack) =>
                   /\ stack'[k].current = stack[k].current
                   /\ stack'[k].wait_queue = stack[k].wait_queue
          /\ ChildReturns =>
                LET parent == stack'[Len(stack')]
                IN  /\ parent.pend = "none"
                    /\ parent.current = Caller.current
                    /\ parent.wait_queue = Caller.wait_queue
                    /\ parent.wait_queue[Len(parent.wait_queue)] =
                           parent.current]_vars

\* the parent has resumed after a child that replaced its image by EXEC,
\* and has handled a line of its own
C20_Witness ==
    /\ Len(stack) = 1
    /\ Top.pend = "none"
    /\ HasLabel(Top.execution, "updating PCB")
    /\ Top.execution[Len(Top.execution)].label = "IRET"
    /\ Top.execution[Len(Top.execution) - 1].label = "ENDIO ISR"
    /\ Top.current = PCB(0, -1, "init", 1, 3)
    /\ Top.wait_queue = <<Top.current>>

====
